---- MODULE Spec2Model ----
(***************************************************************************)
(* a17r: translation of a POT template into one PO catalog per requested   *)
(* language (src/main.py).  The model covers cli (the orchestrator: key    *)
(* check, ThreadPoolExecutor fan-out, the result loop, the executor's      *)
(* shutdown on leaving the with-block) and generate_po_file (the job a     *)
(* worker thread runs: parse, stamp, identity lookup, translate, merge).   *)
(***************************************************************************)
EXTENDS Integers, Sequences, FiniteSets, TLC

\* ------------------------------------------------------------------ bounds
MaxLangs == 2      \* --language occurrences on the command line
MaxPairs == 3      \* pairs in a translate response, generate_po_file alone
MaxEntries == 2    \* entries of the template, generate_po_file alone

\* ------------------------------------------------------------ value domains
LanguageNames == {"french", "spanish"}
Codes == {"fr", "es"}
MsgIds == {"Hello", "Bye"}
ForeignIds == {"Other"}
MsgStrs == {"a", "b"}
OldStrs == {"", "old"}

None == "None"
NoPo == [header |-> "NoPo"]

SeqsUpTo(S, n) == UNION {[1..k -> S] : k \in 0..n}

\* Python truthiness of an Optional[str]
Truthy(s) == s /= None /\ s /= ""

\* `a or b`
PyOr(a, b) == IF Truthy(a) THEN a ELSE b

\* A parsed catalog: header comment, metadata dict, ordered entries.
TemplateMetadata ==
    [revision |-> "YEAR-MO-DA HO:MI+ZONE", generator |-> "xgettext",
     translator |-> "FULL NAME <EMAIL@ADDRESS>"]

Entries == [msgid : MsgIds, msgstr : OldStrs]

Templates(n) ==
    {[header |-> "# SOME DESCRIPTIVE TITLE", metadata |-> TemplateMetadata,
      entries |-> e] : e \in SeqsUpTo(Entries, n)}

\* The template of an orchestrated run: one entry still untranslated, one
\* that already carries a msgstr.
ScenarioTemplates ==
    {[header |-> "# SOME DESCRIPTIVE TITLE", metadata |-> TemplateMetadata,
      entries |-> <<[msgid |-> "Hello", msgstr |-> ""],
                    [msgid |-> "Bye", msgstr |-> "old"]>>]}

\* What the model may answer to translate: a list of Translation objects.
Pairs == [msgid : MsgIds \cup ForeignIds, msgstr : MsgStrs]
Responses(n) == SeqsUpTo(Pairs, n)

\* The answers drawn in orchestrated runs: no pair, one entry covered, both
\* entries covered.
JobResponses ==
    {<<>>,
     <<[msgid |-> "Hello", msgstr |-> "a"]>>,
     <<[msgid |-> "Hello", msgstr |-> "b"], [msgid |-> "Bye", msgstr |-> "a"]>>}

\* Outcomes of `git config user.name` / `git config user.email`
GitFail == "CalledProcessError"
GitNames == {GitFail, "Ann"}
GitEmails == {GitFail, "ann@example.org"}
NotRun == "NotRun"

\* The two check_output calls of the try block: the second is not run when
\* the first raises.
GitOutcomes ==
    {<<name, email>> : name \in GitNames \ {GitFail}, email \in GitEmails}
    \cup {<<GitFail, NotRun>>}

\* The outcomes drawn in orchestrated runs: the first call raises, or both
\* succeed.
JobGitOutcomes == {<<GitFail, NotRun>>, <<"Ann", "ann@example.org">>}
FallbackTranslator == <<"a17r", "support@example.net">>

VARIABLES
    api_key,         \* cli's api_key parameter (reassigned at line 178)
    env,             \* OPENAI_API_KEY after the two load_dotenv calls
    languages_list,  \* the --language occurrences, in order
    pot_content,     \* the template text, as the catalog it parses to
    mainPc,          \* position of the main thread in cli
    futures,         \* futures[f]: the language stored for future f
    idx,             \* the future the result loop is at
    language_code,   \* the resolver's answer for the current future
    po,              \* the main thread's `po`: a reference into heap
    raised,          \* the exception leaving the with-block, or None
    exitCode,        \* the process's exit status, or None while running
    job,             \* job[f]: the generate_po_file call behind future f
    heap,            \* heap[r]: the POFile object with reference r
    files,           \* the working directory: code -> saved catalog
    saved,           \* history: every po.save, in order
    stdout,          \* the click.echo lines
    stderr,          \* messages on stderr
    calls,           \* history: the LLM requests issued so far
    runningAtRaise   \* history: futures unfinished when `raised` was set

vars == <<api_key, env, languages_list, pot_content, mainPc, futures, idx,
          language_code, po, raised, exitCode, job, heap, files, saved,
          stdout, stderr, calls, runningAtRaise>>

mainVars == <<api_key, env, languages_list, pot_content, mainPc, futures, idx,
              language_code, po, raised, exitCode, files, saved, stdout,
              stderr, runningAtRaise>>

N == Len(languages_list)
Futures == 1..N

NewJob(lang) ==
    [language |-> lang, pc |-> "unsubmitted", po |-> 0, translations |-> <<>>,
     exc |-> None, git |-> None]

Finished(f) == job[f].pc \in {"done", "failed"}

\* ------------------------------------------------------- generate_po_file

\* polib.pofile(pot_content): a new POFile object parsed from the text.
Pofile(text) == text

\* one POFile object parsed once and handed to every job
NewPoRefShared(f) == 1

\* The reference of the object polib.pofile returns inside job f: every call
\* builds a new object.
NewPoRef(f) == f

\* {translation.msgid: translation.msgstr for translation in translations},
\* first-pair-wins variant
RECURSIVE TranslationsDictFirstWins(_)
TranslationsDictFirstWins(translations) ==
    IF translations = <<>> THEN <<>>
    ELSE LET n == Len(translations)
             d == TranslationsDictFirstWins(SubSeq(translations, 1, n - 1))
             t == translations[n]
         IN  [k \in DOMAIN d \cup {t.msgid} |->
                 IF k \in DOMAIN d THEN d[k] ELSE t.msgstr]

\* {translation.msgid: translation.msgstr for translation in translations}:
\* the comprehension stores the pairs in list order, a later store to the
\* same key replacing the earlier one.
RECURSIVE TranslationsDict(_)
TranslationsDict(translations) ==
    IF translations = <<>> THEN <<>>
    ELSE LET n == Len(translations)
             d == TranslationsDict(SubSeq(translations, 1, n - 1))
             t == translations[n]
         IN  [k \in DOMAIN d \cup {t.msgid} |->
                 IF k = t.msgid THEN t.msgstr ELSE d[k]]

\* the sweep, variant that blanks the entries it finds no translation for
MergeEntriesBlanking(entries, translations_dict) ==
    [k \in DOMAIN entries |->
        [entries[k] EXCEPT !.msgstr =
            IF entries[k].msgid \in DOMAIN translations_dict
            THEN translations_dict[entries[k].msgid] ELSE ""]]

\* the sweep, variant that also creates an entry for a pair that matches
\* none
MergeEntriesAppending(entries, translations_dict) ==
    LET merged == [k \in DOMAIN entries |->
                      IF entries[k].msgid \in DOMAIN translations_dict
                      THEN [entries[k] EXCEPT
                               !.msgstr = translations_dict[entries[k].msgid]]
                      ELSE entries[k]]
        missing == {m \in DOMAIN translations_dict :
                       \A k \in DOMAIN entries : entries[k].msgid /= m}
    IN  IF missing = {} THEN merged
        ELSE LET m == CHOOSE x \in missing : TRUE
             IN  Append(merged, [msgid |-> m, msgstr |-> translations_dict[m]])

\* for entry in po: if entry.msgid in translations_dict:
\*     entry.msgstr = translations_dict[entry.msgid]
MergeEntries(entries, translations_dict) ==
    [k \in DOMAIN entries |->
        IF entries[k].msgid \in DOMAIN translations_dict
        THEN [entries[k] EXCEPT !.msgstr = translations_dict[entries[k].msgid]]
        ELSE entries[k]]

\* translator_info, variant whose handler covers the first call only
TranslatorInfoNameOnly(name, email) ==
    IF name /= GitFail THEN <<name, email>> ELSE FallbackTranslator

\* translator_info: f"{name} <{email}>", or the fallback when either
\* check_output raised
TranslatorInfo(name, email) ==
    IF name /= GitFail /\ email /= GitFail THEN <<name, email>>
    ELSE FallbackTranslator

\* A worker thread takes the job: po = polib.pofile(pot_content)
JobParse(f) ==
    /\ job[f].pc = "pending"
    /\ heap' = [heap EXCEPT ![NewPoRef(f)] = Pofile(pot_content)]
    /\ job' = [job EXCEPT ![f].pc = "parsed", ![f].po = NewPoRef(f)]
    /\ UNCHANGED <<mainVars, calls>>

\* the stamping, variant that leaves the inherited header comment
StampKeepingHeader(p) ==
    [p EXCEPT !.metadata.revision = "now",
              !.metadata.generator = "A17R 0.1.0"]

\* po.header = ""; PO-Revision-Date and X-Generator
Stamp(p) ==
    [p EXCEPT !.header = "",
              !.metadata.revision = "now",
              !.metadata.generator = "A17R 0.1.0"]

\* the translation set as a variable shared by the jobs
JobTranslationsShared(f) == job[1].translations

\* the local variable `translations` of job f
JobTranslations(f) == job[f].translations

\* lines 121-123
JobStamp(f) ==
    /\ job[f].pc = "parsed"
    /\ heap' = [heap EXCEPT ![job[f].po] = Stamp(@)]
    /\ job' = [job EXCEPT ![f].pc = "stamped"]
    /\ UNCHANGED <<mainVars, calls>>

\* the try/except around the two git calls, then Last-Translator
JobIdentity(f, outcomes) ==
    /\ job[f].pc = "stamped"
    /\ \E git \in outcomes :
          /\ heap' = [heap EXCEPT ![job[f].po].metadata.translator =
                                      TranslatorInfo(git[1], git[2])]
          /\ job' = [job EXCEPT ![f].pc = "identified", ![f].git = git]
    /\ UNCHANGED <<mainVars, calls>>

\* translations = translate(...): one LLM request, answered by a validated
\* list of pairs, one of `responses`
JobTranslate(f, responses) ==
    /\ job[f].pc = "identified"
    /\ calls' = calls \cup {[fn |-> "translate", future |-> f,
                             language |-> job[f].language]}
    /\ \E translations \in responses :
          job' = [job EXCEPT ![f].pc = "translated",
                             ![f].translations = translations]
    /\ UNCHANGED <<mainVars, heap>>

\* translate raises: the response failed validation (or the request failed);
\* generate_po_file has no handler, the future holds the exception
JobTranslateFails(f) ==
    /\ job[f].pc = "identified"
    /\ calls' = calls \cup {[fn |-> "translate", future |-> f,
                             language |-> job[f].language]}
    /\ job' = [job EXCEPT ![f].pc = "failed", ![f].exc = "ExtractionError"]
    /\ UNCHANGED <<mainVars, heap>>

\* the dict, the sweep over the entries, return po
JobMerge(f) ==
    /\ job[f].pc = "translated"
    /\ heap' = [heap EXCEPT ![job[f].po].entries =
                   MergeEntries(@, TranslationsDict(JobTranslations(f)))]
    /\ job' = [job EXCEPT ![f].pc = "done"]
    /\ UNCHANGED <<mainVars, calls>>

\* generate_po_file called on its own for one language
GenInit ==
    /\ api_key = "sk" /\ env = None
    /\ languages_list \in [1..1 -> LanguageNames]
    /\ pot_content \in Templates(MaxEntries)
    /\ mainPc = "caller"
    /\ futures = <<>> /\ idx = 1 /\ language_code = None /\ po = 0
    /\ raised = None /\ exitCode = None
    /\ job = [f \in 1..1 |-> [NewJob(languages_list[f]) EXCEPT !.pc = "pending"]]
    /\ heap = [r \in 1..1 |-> NoPo]
    /\ files = [c \in Codes |-> NoPo]
    /\ saved = <<>> /\ stdout = <<>> /\ stderr = <<>>
    /\ calls = {} /\ runningAtRaise = {}

GenNext ==
    \/ JobParse(1)
    \/ JobStamp(1)
    \/ JobIdentity(1, GitOutcomes)
    \/ JobTranslate(1, Responses(MaxPairs))
    \/ JobTranslateFails(1)
    \/ JobMerge(1)

GenSpec == GenInit /\ [][GenNext]_vars

\* ---------------------------------------------------------------------- cli

\* `if not api_key` never taken
KeyMissingNever(key) == FALSE

\* `if not api_key`
KeyMissing(key) == ~Truthy(key)

\* the loop variable `lang` as the submit loop leaves it
FutureLanguageLeftover(f) == languages_list[N]

\* futures[future]
FutureLanguage(f) == futures[f]

\* a result taken although the job raised
FutureRaisedIgnored(f) == FALSE

\* future.result() re-raises the exception the job ended with
FutureRaised(f) == job[f].pc = "failed"

\* the result of the first future, whichever future is asked
FutureResultFirst(f) == job[1].po

\* future.result(): the object job f returned
FutureResult(f) == job[f].po

\* futures keyed by the language name: a repeated name adds no key
FuturesKeyedByName(futs, lang) ==
    IF \E k \in DOMAIN futs : futs[k] = lang THEN futs ELSE Append(futs, lang)

\* futures[future] = lang, keyed by the new Future object
FuturesWith(futs, lang) == Append(futs, lang)

\* the futures taken last-submitted first
LoopFutureReversed(i) == Len(futures) + 1 - i

\* for future in futures: the dict yields its keys in insertion order, so
\* the i-th iteration is at the i-th submitted future
LoopFuture(i) == i

\* leaving the with-block without waiting
JoinedNoWait == TRUE

\* ThreadPoolExecutor.__exit__: shutdown(wait=True) returns when every
\* submitted job has run to its end; nothing is cancelled
Joined == \A f \in Futures : Finished(f)

Unfinished == {f \in Futures : job[f].pc /= "unsubmitted" /\ ~Finished(f)}

Init ==
    /\ api_key \in {None, "", "sk"}
    /\ env \in {None, "sk"}
    /\ languages_list \in SeqsUpTo(LanguageNames, MaxLangs) \ {<<>>}
    /\ pot_content \in ScenarioTemplates
    /\ mainPc = "start"
    /\ futures = <<>> /\ idx = 1 /\ language_code = None /\ po = 0
    /\ raised = None /\ exitCode = None
    /\ job = [f \in Futures |-> NewJob(None)]
    /\ heap = [r \in Futures |-> NoPo]
    /\ files = [c \in Codes |-> NoPo]
    /\ saved = <<>> /\ stdout = <<>> /\ stderr = <<>>
    /\ calls = {} /\ runningAtRaise = {}

\* lines 175-200: the key from the flag or the environment; without one,
\* the message on stderr and sys.exit(1)
CheckKey ==
    /\ mainPc = "start"
    /\ api_key' = PyOr(api_key, env)
    /\ IF KeyMissing(api_key')
       THEN /\ stderr' = Append(stderr, [kind |-> "message",
                                      text |-> "API key is required"])
            /\ exitCode' = 1
            /\ mainPc' = "exited"
       ELSE /\ mainPc' = "submit"
            /\ UNCHANGED <<stderr, exitCode>>
    /\ UNCHANGED <<env, languages_list, pot_content, futures, idx,
                   language_code, po, raised, job, heap, files, saved, stdout,
                   calls, runningAtRaise>>

\* lines 205-213: executor.submit(generate_po_file, ..., lang) and
\* futures[future] = lang, one language per step
Submit ==
    /\ mainPc = "submit"
    /\ job' = [job EXCEPT ![idx] =
                  [NewJob(languages_list[idx]) EXCEPT !.pc = "pending"]]
    /\ futures' = FuturesWith(futures, languages_list[idx])
    /\ IF idx = N
       THEN idx' = 1 /\ mainPc' = "resolve"
       ELSE idx' = idx + 1 /\ UNCHANGED mainPc
    /\ UNCHANGED <<api_key, env, languages_list, pot_content, language_code,
                   po, raised, exitCode, heap, files, saved, stdout, stderr,
                   calls, runningAtRaise>>

\* lines 216-217: the resolver's request for the language of the current
\* future, answered by some code
Resolve ==
    /\ mainPc = "resolve"
    /\ calls' = calls \cup {[fn |-> "get_language_code",
                             future |-> LoopFuture(idx),
                             language |-> FutureLanguage(LoopFuture(idx))]}
    /\ \E c \in Codes : language_code' = c
    /\ mainPc' = "result"
    /\ UNCHANGED <<api_key, env, languages_list, pot_content, futures, idx,
                   po, raised, exitCode, job, heap, files, saved, stdout,
                   stderr, runningAtRaise>>

\* line 216 raises: nothing in the loop catches it, it leaves the with-block
ResolveFails ==
    /\ mainPc = "resolve"
    /\ calls' = calls \cup {[fn |-> "get_language_code",
                             future |-> LoopFuture(idx),
                             language |-> FutureLanguage(LoopFuture(idx))]}
    /\ raised' = "ResolutionError"
    /\ runningAtRaise' = Unfinished
    /\ mainPc' = "shutdown"
    /\ UNCHANGED <<api_key, env, languages_list, pot_content, futures, idx,
                   language_code, po, exitCode, job, heap, files, saved,
                   stdout, stderr>>

\* line 218: po = future.result() blocks until the job has ended
Result ==
    /\ mainPc = "result"
    /\ Finished(LoopFuture(idx))
    /\ IF FutureRaised(LoopFuture(idx))
       THEN /\ raised' = job[LoopFuture(idx)].exc
            /\ runningAtRaise' = Unfinished
            /\ mainPc' = "shutdown"
            /\ UNCHANGED po
       ELSE /\ po' = FutureResult(LoopFuture(idx))
            /\ mainPc' = "save"
            /\ UNCHANGED <<raised, runningAtRaise>>
    /\ UNCHANGED <<api_key, env, languages_list, pot_content, futures, idx,
                   language_code, exitCode, job, heap, files, saved, stdout,
                   stderr, calls>>

\* lines 219-222: po.save(f"{language_code}.po") and the echo, then the
\* next future
Save ==
    /\ mainPc = "save"
    /\ files' = [files EXCEPT ![language_code] = heap[po]]
    /\ saved' = Append(saved, [future |-> LoopFuture(idx), ref |-> po,
                               language |->
                                   FutureLanguage(LoopFuture(idx)),
                               code |-> language_code, catalog |-> heap[po]])
    /\ stdout' = Append(stdout, [language |-> FutureLanguage(LoopFuture(idx)),
                                 filename |-> language_code])
    /\ IF idx = Len(futures)
       THEN mainPc' = "shutdown" /\ UNCHANGED idx
       ELSE mainPc' = "resolve" /\ idx' = idx + 1
    /\ UNCHANGED <<api_key, env, languages_list, pot_content, futures,
                   language_code, po, raised, exitCode, job, heap, stderr,
                   calls, runningAtRaise>>

\* the end of the with-block, then of the process: status 0, or the
\* traceback of the uncaught exception and status 1
Shutdown ==
    /\ mainPc = "shutdown"
    /\ Joined
    /\ mainPc' = "exited"
    /\ IF raised = None
       THEN exitCode' = 0 /\ UNCHANGED stderr
       ELSE exitCode' = 1 /\ stderr' = Append(stderr, [kind |-> "traceback",
                                                       text |-> raised])
    /\ UNCHANGED <<api_key, env, languages_list, pot_content, futures, idx,
                   language_code, po, raised, job, heap, files, saved, stdout,
                   calls, runningAtRaise>>

Next ==
    \/ CheckKey
    \/ Submit
    \/ Resolve
    \/ ResolveFails
    \/ Result
    \/ Save
    \/ Shutdown
    \/ \E f \in Futures : JobParse(f)
    \/ \E f \in Futures : JobStamp(f)
    \/ \E f \in Futures : JobIdentity(f, JobGitOutcomes)
    \/ \E f \in Futures : JobTranslate(f, JobResponses)
    \/ \E f \in Futures : JobTranslateFails(f)
    \/ \E f \in Futures : JobMerge(f)

Spec == Init /\ [][Next]_vars

\* ------------------------------------------------------------------ claims

Written(f) == \E k \in DOMAIN saved : saved[k].future = f

SavesOf(f) == {k \in DOMAIN saved : saved[k].future = f}

\* the job whose generate_po_file call returned the object with reference r
Producer(r) == CHOOSE f \in Futures : job[f].po = r

\* what merging job f's translation set into the template gives
MergedEntries(f) ==
    MergeEntries(pot_content.entries, TranslationsDict(job[f].translations))

\* C1: when the process has ended after an extraction failure (and no
\* resolver failure) in a run of two or more different languages, every job
\* whose extraction succeeded has had its output file written.
ExtractorFailureIsolation ==
    (/\ mainPc = "exited"
     /\ N >= 2
     /\ \A f, g \in Futures : f /= g => languages_list[f] /= languages_list[g]
     /\ raised /= "ResolutionError"
     /\ \E f \in Futures : job[f].pc = "failed")
    => \A g \in Futures : job[g].pc = "done" => Written(g)

\* C2: when the process has ended after the resolver failed for one of
\* several different languages (and no extraction failed), every other job
\* has had its output file written.
ResolverFailureIsolation ==
    (/\ mainPc = "exited"
     /\ raised = "ResolutionError"
     /\ \A f, g \in Futures : f /= g => languages_list[f] /= languages_list[g]
     /\ \A f \in Futures : job[f].pc = "done")
    => \A g \in Futures \ {idx} : Written(g)

\* the uncaught exception's traceback, counted as the failure report of the
\* job the result loop was at (it does not name the language)
FailureReported(f) ==
    /\ raised /= None
    /\ f = idx
    /\ \E k \in DOMAIN stderr : stderr[k].kind = "traceback"

\* C3: when the orchestrator has terminated, every submitted job has exactly
\* one outcome: its file written once, or its failure reported, never both
\* and never neither.
ExactlyOneOutcome ==
    mainPc = "exited"
    => \A f \in 1..Len(futures) :
          \/ Cardinality(SavesOf(f)) = 1 /\ ~FailureReported(f)
          \/ Cardinality(SavesOf(f)) = 0 /\ FailureReported(f)

\* C4: once the API key is resolved, the process ends with exit code 0,
\* whatever jobs failed.
ExitZeroAfterJobs ==
    (mainPc = "exited" /\ Truthy(api_key)) => exitCode = 0

\* C5: every saved file holds the catalog produced by the job that was
\* submitted for the language the file is named after: the language of the
\* resolver request, of the outcome line and of the producing job are the
\* same, and the content is that job's merge.
ResultAttribution ==
    \A k \in DOMAIN saved :
        LET w == saved[k] IN
        /\ job[Producer(w.ref)].language = w.language
        /\ Producer(w.ref) = w.future
        /\ [fn |-> "get_language_code", future |-> w.future,
            language |-> w.language] \in calls
        /\ stdout[k] = [language |-> w.language, filename |-> w.code]
        /\ w.catalog.entries = MergedEntries(Producer(w.ref))

\* C5 witness: two jobs for different languages with different catalogs
\* have both been saved
TwoLanguagesSaved ==
    /\ Len(saved) = 2
    /\ saved[1].language /= saved[2].language
    /\ saved[1].catalog.entries /= saved[2].catalog.entries

\* C6: with no key from the flag and none in the environment, the process
\* has exit code 1 as soon as it is past the check, with no job submitted,
\* no LLM request issued and no file written.
MissingKeyExits ==
    (mainPc /= "start" /\ ~Truthy(api_key) /\ ~Truthy(env))
    => /\ mainPc = "exited"
       /\ exitCode = 1
       /\ stderr /= <<>>
       /\ futures = <<>>
       /\ \A f \in Futures : job[f].pc = "unsubmitted"
       /\ calls = {}
       /\ saved = <<>>
       /\ \A c \in Codes : files[c] = NoPo

\* C6 witness: the process has exited on the missing key
ExitedOnMissingKey ==
    mainPc = "exited" /\ exitCode = 1 /\ ~Truthy(api_key) /\ ~Truthy(env)

\* C7: a job whose extraction failed holds no translation set, its catalog's
\* entries are those of the template, and no file was saved from its result.
ExtractionAllOrNothing ==
    \A f \in Futures :
        job[f].pc = "failed"
        => /\ job[f].translations = <<>>
           /\ heap[job[f].po].entries = pot_content.entries
           /\ \A k \in DOMAIN saved :
                 saved[k].future /= f /\ saved[k].ref /= job[f].po

\* C7 witness: the result loop has met a job whose extraction failed, after
\* saving another job's file
FailedJobMet ==
    /\ mainPc = "exited"
    /\ raised = "ExtractionError"
    /\ job[idx].pc = "failed"
    /\ saved /= <<>>

\* C8: the orchestrator has not exited while a submitted job is pending or
\* running: at exit every submitted job has ended, in success or in failure.
JoinBeforeExit ==
    mainPc = "exited" => \A f \in 1..Len(futures) : Finished(f)

\* C8 witness: the process has exited after a failure was raised in the
\* result loop while other jobs were still pending or running
ExitedAfterRaiseWhileRunning ==
    mainPc = "exited" /\ raised /= None /\ runningAtRaise /= {}

\* C9: after the merge, every entry whose msgid occurs in the translation
\* set holds the msgstr of the last pair with that msgid.
LastPairWins ==
    \A f \in Futures :
        job[f].pc = "done"
        => LET tr == job[f].translations
               es == heap[job[f].po].entries
           IN  \A k \in DOMAIN es : \A i \in DOMAIN tr :
                   (/\ tr[i].msgid = es[k].msgid
                    /\ \A j \in DOMAIN tr : j > i => tr[j].msgid /= tr[i].msgid)
                   => es[k].msgstr = tr[i].msgstr

\* C9 witness: a merge is done whose translation set held two pairs with
\* the msgid of an entry and different msgstrs
MergedWithDuplicates ==
    \E f \in Futures :
        /\ job[f].pc = "done"
        /\ \E i, j \in DOMAIN job[f].translations :
              /\ i < j
              /\ job[f].translations[i].msgid = job[f].translations[j].msgid
              /\ job[f].translations[i].msgstr /= job[f].translations[j].msgstr
              /\ \E k \in DOMAIN pot_content.entries :
                    pot_content.entries[k].msgid = job[f].translations[i].msgid

\* C10: after the merge, every entry whose msgid is not in the translation
\* set is as it was in the template, and a job fails in its extraction only,
\* never for an entry left without a translation.
UnmatchedUnchanged ==
    \A f \in Futures :
        /\ job[f].pc = "done"
           => LET tr == job[f].translations
                  es == heap[job[f].po].entries
              IN  /\ DOMAIN es = DOMAIN pot_content.entries
                  /\ \A k \in DOMAIN es :
                        (\A i \in DOMAIN tr :
                            tr[i].msgid /= pot_content.entries[k].msgid)
                        => es[k] = pot_content.entries[k]
        /\ job[f].pc = "failed" => job[f].exc = "ExtractionError"

\* C10 witness: a merge is done that replaced one entry and left another,
\* which carried a msgstr, without a translation
MergedWithPartialCoverage ==
    \E f \in Futures :
        /\ job[f].pc = "done"
        /\ \E k, m \in DOMAIN pot_content.entries :
              /\ pot_content.entries[k].msgstr = "old"
              /\ \A i \in DOMAIN job[f].translations :
                    job[f].translations[i].msgid /= pot_content.entries[k].msgid
              /\ \E i \in DOMAIN job[f].translations :
                    job[f].translations[i].msgid = pot_content.entries[m].msgid

\* the msgids of the template's entries
TemplateMsgIds ==
    {pot_content.entries[k].msgid : k \in DOMAIN pot_content.entries}

\* C11: the completed catalog has the template's msgids, in the template's
\* order, and equals the merge of the translation set without the pairs
\* whose msgid matches no entry.
EntrySetPreserved ==
    \A f \in Futures :
        job[f].pc = "done"
        => LET es == heap[job[f].po].entries
               Matches(pair) == pair.msgid \in TemplateMsgIds
               matching == SelectSeq(job[f].translations, Matches)
           IN  /\ Len(es) = Len(pot_content.entries)
               /\ \A k \in DOMAIN es : es[k].msgid = pot_content.entries[k].msgid
               /\ es = MergeEntries(pot_content.entries,
                                    TranslationsDict(matching))

\* C11 witness: a merge is done whose translation set held a pair that
\* matches no entry and a pair that matches one
MergedWithForeignPair ==
    \E f \in Futures :
        /\ job[f].pc = "done"
        /\ \E i, j \in DOMAIN job[f].translations :
              /\ job[f].translations[i].msgid \notin TemplateMsgIds
              /\ job[f].translations[j].msgid \in TemplateMsgIds

\* C12: the template text never changes, the jobs' catalog objects are
\* different objects, and a step leaves the object of every job that did
\* not take it as it was.
TemplateIsolation ==
    [][/\ pot_content' = pot_content
       /\ \A f, g \in Futures :
             (f /= g /\ job'[f].po /= 0 /\ job'[g].po /= 0)
             => job'[f].po /= job'[g].po
       /\ \A g \in Futures :
             (job'[g] = job[g] /\ job[g].po /= 0)
             => heap'[job[g].po] = heap[job[g].po]]_vars

\* C12 witness: one job has merged its translations while another job,
\* between its parse and its merge, still holds the template's entries
MergedBesideRunningJob ==
    \E f, g \in Futures :
        /\ f /= g
        /\ job[f].pc = "done"
        /\ heap[job[f].po].entries /= pot_content.entries
        /\ job[g].pc \in {"parsed", "stamped", "identified", "translated"}
        /\ heap[job[g].po].entries = pot_content.entries

\* the catalog determined by the template and by job f's own identity
\* lookup and translation set
OwnCatalog(f) ==
    [header |-> "",
     metadata |-> [revision |-> "now", generator |-> "A17R 0.1.0",
                   translator |-> TranslatorInfo(job[f].git[1], job[f].git[2])],
     entries |-> MergeEntries(pot_content.entries,
                              TranslationsDict(job[f].translations))]

\* C13 as stated: a run with two different language names that ends without
\* any failure has produced two separate output files, each holding its own
\* job's catalog.
TwoSeparateFiles ==
    (/\ mainPc = "exited"
     /\ exitCode = 0
     /\ raised = None
     /\ N = 2
     /\ languages_list[1] /= languages_list[2])
    => /\ Len(saved) = 2
       /\ saved[1].code /= saved[2].code
       /\ files[saved[1].code] = OwnCatalog(1)
       /\ files[saved[2].code] = OwnCatalog(2)

\* C13 amended: every saved catalog is the one determined by the template
\* and its own job's identity lookup and translation set, whatever the other
\* jobs were answered; a file holds the catalog of the last save under its
\* code, so two saves leave two separate files when their codes differ.
NoCrossContamination ==
    \A k \in DOMAIN saved :
        /\ saved[k].catalog = OwnCatalog(saved[k].future)
        /\ (\A j \in DOMAIN saved : j > k => saved[j].code /= saved[k].code)
           => files[saved[k].code] = saved[k].catalog

\* C13 witness: two different languages, answered with different
\* translation sets, have been saved under different codes
TwoLanguagesTwoFiles ==
    /\ Len(saved) = 2
    /\ saved[1].language /= saved[2].language
    /\ saved[1].code /= saved[2].code
    /\ job[1].translations /= job[2].translations
    /\ files[saved[1].code] /= files[saved[2].code]

\* C14: every --language occurrence is submitted as a job of its own under
\* a key of its own, and every job that got past its extraction issued its
\* own translate request.
DuplicatesNotDeduplicated ==
    /\ Cardinality({f \in Futures : job[f].pc /= "unsubmitted"}) = Len(futures)
    /\ (mainPc \in {"resolve", "result", "save", "shutdown"})
       => futures = languages_list
    /\ \A f \in Futures :
          job[f].pc \in {"translated", "done", "failed"}
          => [fn |-> "translate", future |-> f,
              language |-> languages_list[f]] \in calls
    /\ Cardinality({c \in calls : c.fn = "translate"})
       = Cardinality({f \in Futures :
                         job[f].pc \in {"translated", "done", "failed"}})

\* C14 witness: two occurrences of one language name ran two extractions
\* and wrote the same output file
DuplicateWroteSameFile ==
    /\ Len(saved) = 2
    /\ saved[1].language = saved[2].language
    /\ saved[1].code = saved[2].code
    /\ saved[1].future /= saved[2].future
    /\ Cardinality({c \in calls : c.fn = "translate"}) = 2

\* C15: once a job is past its identity lookup, Last-Translator is the
\* fallback identity when either git call raised and <<name, email>> when
\* both returned, and a job never fails for the lookup.
IdentityNeverFails ==
    \A f \in Futures :
        /\ job[f].pc \in {"identified", "translated", "done", "failed"}
           => LET t == heap[job[f].po].metadata.translator
                  g == job[f].git
              IN  /\ (g[1] = GitFail \/ g[2] = GitFail)
                     => t = FallbackTranslator
                  /\ (g[1] /= GitFail /\ g[2] /= GitFail)
                     => t = <<g[1], g[2]>>
        /\ job[f].pc \in {"pending", "parsed", "stamped"} => job[f].git = None
        /\ job[f].exc \in {None, "ExtractionError"}

\* C15 witness: a job whose second git call raised has completed its
\* catalog with the fallback identity
DoneWithFallbackAfterEmailFailure ==
    \E f \in Futures :
        /\ job[f].pc = "done"
        /\ job[f].git = <<"Ann", GitFail>>
        /\ heap[job[f].po].metadata.translator = FallbackTranslator

ResolverCalls == {c \in calls : c.fn = "get_language_code"}

Stamped(p) ==
    /\ p.header = ""
    /\ p.metadata.revision = "now"
    /\ p.metadata.generator = "A17R 0.1.0"

SavedIsPrefix ==
    /\ \A k \in DOMAIN saved : saved[k].future = k /\ job[k].pc = "done"
    /\ mainPc \in {"resolve", "result", "save"} => Len(saved) = idx - 1
    /\ (raised = None /\ (mainPc = "shutdown"
                            \/ (mainPc = "exited" /\ exitCode = 0)))
       => Len(saved) = N
    /\ raised /= None
       => /\ Len(saved) = idx - 1
          /\ \A g \in idx..N : ~Written(g)

\* C18 witness: the second job is done before the first, and nothing is
\* written while the loop waits for the first
LaterJobDoneFirstUnwritten ==
    /\ N >= 2
    /\ mainPc = "result"
    /\ idx = 1
    /\ ~Finished(1)
    /\ job[2].pc = "done"
    /\ saved = <<>>

Max(S) == CHOOSE m \in S : \A x \in S : x <= m

\* C19: a file holds the catalog of the latest-submitted job among those
\* saved under its code; a step that calls the resolver or writes a file is
\* a step of the orchestrator, not of a job, and makes one call or one
\* write.
FileWritesSequential ==
    /\ [](\A c \in Codes :
             LET S == {saved[k].future : k \in
                          {j \in DOMAIN saved : saved[j].code = c}}
             IN  IF S = {} THEN files[c] = NoPo
                 ELSE files[c] = heap[job[Max(S)].po])
    /\ [][/\ (files' /= files \/ saved' /= saved
                 \/ ResolverCalls' /= ResolverCalls)
             => job' = job /\ heap' = heap
          /\ Len(saved') <= Len(saved) + 1
          /\ Cardinality(ResolverCalls') <= Cardinality(ResolverCalls) + 1
          /\ ~(saved' /= saved /\ ResolverCalls' /= ResolverCalls)]_vars

\* C19 witness: two jobs with different catalogs were saved under one code
\* and the file holds the second's
SameCodeHoldsSecond ==
    /\ Len(saved) = 2
    /\ saved[1].code = saved[2].code
    /\ saved[1].catalog /= saved[2].catalog
    /\ files[saved[2].code] = saved[2].catalog

====
